---- MODULE Spec2Model ----
(***************************************************************************)
(* Host reference implementation of the pairwise interaction operator, as  *)
(* written in test/utest/legacy_layer_test/interaction_layer_test_old.cpp  *)
(* (interaction_layer_test<T>): concat -> Gram matrix -> triangular        *)
(* output assembly, then the reverse pass: disassembly -> symmetric        *)
(* recombination -> scatter.  All host arrays are flat, 0-based, and are   *)
(* indexed with the index arithmetic of the source.  Element values are    *)
(* integers, so every product and sum is exact.                            *)
(***************************************************************************)
EXTENDS Integers, Sequences, FiniteSets, TLC

\* ---------------------------------------------------------------- bounds
MaxHeight == 2
MaxNEmb == 3
MaxInWidth == 2
MaxVal == 1
MaxCells == 6
MaxGrad == 2
MaxThreads == 3
MaxCalls == 2
MaxOpCells == 2

VARIABLES
  height, n_emb, in_width,   \* the arguments of interaction_layer_test
  h_in_mlp, h_in_emb,        \* h_ins[0], h_ins[1]: inputs, later the gradients
  h_concat,                  \* concatenated matrix, later its gradient
  h_mat,                     \* Gram matrix, later its gradient
  h_ref,                     \* output row buffer, read back as output gradient
  h_concat_tmp,              \* copy of the forward h_concat taken by the reverse pass
  h_mat_tmp,                 \* (m + mT) of the Gram gradient
  in_mlp0, in_emb0,          \* history: the inputs as filled before the forward pass
  pc,                        \* position in interaction_layer_test
  \* CpuResource::Barrier (cpu_resource.cc)
  thread_count_, count_, generation_,
  mu_,                       \* owner of the mutex mu_, 0 when free
  b_pc,                      \* per thread: position in Barrier::wait
  local_gen,                 \* per thread: local_gen of its current call
  calls,                     \* per thread: calls to wait started so far
  arrivals,                  \* history: number of --count_ executed so far
  notified,                  \* cond_: blocked threads that notify_all has reached
  \* the operator instance (forward / backward contract)
  op_shape,                  \* shape configured at construction
  op_last,                   \* last successful call: "none", "forward", "backward"
  op_err,                    \* conditions raised by the last call, {} when it succeeded
  op_matrix, op_gram,        \* retained intermediate state
  op_output,                 \* forward output array
  op_dense_grad, op_emb_grad, \* backward output arrays
  op_in,                     \* history: inputs of the last successful forward
  op_og,                     \* history: output gradient of the last successful backward
  op_call,                   \* history: the last call, its kind and the shapes it was given
  op_prev,                   \* history: kind of the call before the last one
  op_replaced                \* history: the last forward replaced a different matrix

ivars == <<height, n_emb, in_width, h_in_mlp, h_in_emb, h_concat, h_mat, h_ref,
           h_concat_tmp, h_mat_tmp, in_mlp0, in_emb0, pc>>

barvars == <<thread_count_, count_, generation_, mu_, b_pc, local_gen, calls, arrivals,
             notified>>

opvars == <<op_shape, op_last, op_err, op_matrix, op_gram, op_output, op_dense_grad,
            op_emb_grad, op_in, op_og, op_call, op_prev, op_replaced>>

othervars == <<barvars, opvars>>

vars == <<ivars, othervars>>

\* No Barrier has been constructed.
BarrierIdle ==
  /\ thread_count_ = 0 /\ count_ = 0 /\ generation_ = 0 /\ mu_ = 0
  /\ b_pc = << >> /\ local_gen = << >> /\ calls = << >> /\ arrivals = 0
  /\ notified = {}

\* No operator instance has been constructed.
OpIdle ==
  /\ op_shape = << >> /\ op_last = "none" /\ op_err = {}
  /\ op_matrix = << >> /\ op_gram = << >> /\ op_output = << >>
  /\ op_dense_grad = << >> /\ op_emb_grad = << >>
  /\ op_in = [dense |-> << >>, emb |-> << >>] /\ op_og = << >>
  /\ op_call = [kind |-> "none", dis |-> {}]
  /\ op_prev = "none" /\ op_replaced = FALSE

\* interaction_layer_test is not running.
InteractionIdle ==
  /\ height = 0 /\ n_emb = 0 /\ in_width = 0
  /\ h_in_mlp = << >> /\ h_in_emb = << >> /\ h_concat = << >> /\ h_mat = << >>
  /\ h_ref = << >> /\ h_concat_tmp = << >> /\ h_mat_tmp = << >>
  /\ in_mlp0 = << >> /\ in_emb0 = << >> /\ pc = "off"

\* ------------------------------------------------------------ array helpers
Zeros(n) == [i \in 0..(n - 1) |-> 0]

Flat(s) == [i \in 0..(Len(s) - 1) |-> s[i + 1]]

Dims(ht, ne, w) == [height |-> ht, n_emb |-> ne, in_width |-> w]

\* size_t n_ins = 1 + n_emb;
NIns(d) == 1 + d.n_emb

\* size_t out_width = n_ins * in_width;
OutWidth(d) == NIns(d) * d.in_width

\* size_t out_len = in_width + (n_ins * (n_ins + 1) / 2 - n_ins) + 1;
OutLenNoPad(d) == d.in_width + ((NIns(d) * (NIns(d) + 1)) \div 2 - NIns(d))

OutLen(d) == d.in_width + ((NIns(d) * (NIns(d) + 1)) \div 2 - NIns(d)) + 1

\* ------------------------------------------------------------------ concat_op
\* size_t in_idx_base = (ni == 0) ? h * in_width : h * in_width * n_emb;
InIdxBaseNoEmbStride(ni, h, d) == h * d.in_width

InIdxBase(ni, h, d) == IF ni = 0 THEN h * d.in_width ELSE h * d.in_width * d.n_emb

\* size_t out_idx = h * out_width + ni * in_width + w;
ConcatOutIdx(ni, h, w, d) == h * OutWidth(d) + ni * d.in_width + w

\* h_in_emb[(ni - 1) * in_width + in_idx]
EmbIdx(ni, in_idx, d) == (ni - 1) * d.in_width + in_idx

\* h_in_mlp[in_idx] = h_in_mlp[in_idx] + h_concat[out_idx];
ScatterDenseAssign(old, g) == g

ScatterDense(old, g) == old + g

\* h_in_emb[in_idx + (ni - 1) * in_width] = h_concat[out_idx];
ScatterEmbAccumulate(old, g) == old + g

ScatterEmb(old, g) == g

\* concat_op(true): the loops over ni, h, w, iteration t of n_ins*height*in_width
RECURSIVE ConcatFprop(_, _, _, _, _)
ConcatFprop(concat, mlp, emb, t, d) ==
  IF t >= NIns(d) * d.height * d.in_width THEN concat
  ELSE LET ni == t \div (d.height * d.in_width)
           h == (t \div d.in_width) % d.height
           w == t % d.in_width
           in_idx == InIdxBase(ni, h, d) + w
           out_idx == ConcatOutIdx(ni, h, w, d)
           v == IF ni = 0 THEN mlp[in_idx] ELSE emb[EmbIdx(ni, in_idx, d)]
       IN ConcatFprop([concat EXCEPT ![out_idx] = v], mlp, emb, t + 1, d)

\* concat_op(false): same loops, writing the two input buffers; io = [mlp, emb]
RECURSIVE ConcatBprop(_, _, _, _)
ConcatBprop(io, concat, t, d) ==
  IF t >= NIns(d) * d.height * d.in_width THEN io
  ELSE LET ni == t \div (d.height * d.in_width)
           h == (t \div d.in_width) % d.height
           w == t % d.in_width
           in_idx == InIdxBase(ni, h, d) + w
           out_idx == ConcatOutIdx(ni, h, w, d)
           e_idx == EmbIdx(ni, in_idx, d)
       IN IF ni = 0
          THEN ConcatBprop([io EXCEPT !.mlp[in_idx] =
                              ScatterDense(io.mlp[in_idx], concat[out_idx])],
                           concat, t + 1, d)
          ELSE ConcatBprop([io EXCEPT !.emb[e_idx] =
                              ScatterEmb(io.emb[e_idx], concat[out_idx])],
                           concat, t + 1, d)

\* ------------------------------------------------------------------ Gram matrix
\* float get_accum(const T a, const T b) { return float(a * b); }
GetAccumSum(a, b) == a + b

GetAccum(a, b) == a * b

\* size_t concat_stride = n_ins * in_width * p;
ConcatStrideNoIns(p, d) == d.in_width * p

ConcatStride(p, d) == NIns(d) * d.in_width * p

\* size_t mat_stride = n_ins * n_ins * p;
MatStride(p, d) == NIns(d) * NIns(d) * p

\* float accum = 0.0f;  (the entry being filled does not enter the sum)
AccumStartOld(old) == old

AccumStart(old) == 0

\* for (k < in_width) accum += get_accum(h_concat[.. m ..], h_concat[.. n ..]);
RECURSIVE DotAccum(_, _, _, _, _, _, _)
DotAccum(concat, p, m, n, k, accum, d) ==
  IF k >= d.in_width THEN accum
  ELSE DotAccum(concat, p, m, n, k + 1,
                accum + GetAccum(concat[ConcatStride(p, d) + m * d.in_width + k],
                                 concat[ConcatStride(p, d) + n * d.in_width + k]),
                d)

\* the loops over p, m, n filling h_mat, iteration t of height*n_ins*n_ins
RECURSIVE GramFill(_, _, _, _)
GramFill(mat, concat, t, d) ==
  IF t >= d.height * NIns(d) * NIns(d) THEN mat
  ELSE LET p == t \div (NIns(d) * NIns(d))
           m == (t \div NIns(d)) % NIns(d)
           n == t % NIns(d)
       IN GramFill([mat EXCEPT ![MatStride(p, d) + m * NIns(d) + n] =
                      DotAccum(concat, p, m, n, 0,
                               AccumStart(mat[MatStride(p, d) + m * NIns(d) + n]), d)],
                   concat, t + 1, d)

\* ------------------------------------------------------------------ output assembly
\* size_t out_stride = p * out_len;
OutStride(p, d) == p * OutLen(d)

\* for (n < n_ins) for (m < n_ins): iteration t of the forward triangle loops
FpropLoopRowMajor(t, d) == [m |-> t \div NIns(d), n |-> t % NIns(d)]

FpropLoop(t, d) == [n |-> t \div NIns(d), m |-> t % NIns(d)]

\* if (n > m)
FpropTake(m, n) == n > m

\* h_ref[out_stride + cur_idx++] = h_in_mlp[p * in_width + i];  st = [ref, cur]
RECURSIVE AssembleDense(_, _, _, _, _)
AssembleDense(st, mlp, p, i, d) ==
  IF i >= d.in_width THEN st
  ELSE AssembleDense([ref |-> [st.ref EXCEPT ![OutStride(p, d) + st.cur] =
                                 mlp[p * d.in_width + i]],
                      cur |-> st.cur + 1],
                     mlp, p, i + 1, d)

\* h_ref[out_stride + cur_idx++] = h_mat[mat_stride + m * n_ins + n];
RECURSIVE AssembleTri(_, _, _, _, _)
AssembleTri(st, mat, p, t, d) ==
  IF t >= NIns(d) * NIns(d) THEN st
  ELSE LET mn == FpropLoop(t, d)
       IN IF FpropTake(mn.m, mn.n)
          THEN AssembleTri([ref |-> [st.ref EXCEPT ![OutStride(p, d) + st.cur] =
                                       mat[MatStride(p, d) + mn.m * NIns(d) + mn.n]],
                            cur |-> st.cur + 1],
                           mat, p, t + 1, d)
          ELSE AssembleTri(st, mat, p, t + 1, d)

\* for (p < height) { size_t cur_idx = 0; ... }
RECURSIVE AssembleAll(_, _, _, _, _)
AssembleAll(ref, mlp, mat, p, d) ==
  IF p >= d.height THEN ref
  ELSE LET s1 == AssembleDense([ref |-> ref, cur |-> 0], mlp, p, 0, d)
           s2 == AssembleTri(s1, mat, p, 0, d)
       IN AssembleAll(s2.ref, mlp, mat, p + 1, d)

\* ------------------------------------------------------------------ disassembly
\* for (n < n_ins) for (m < n_ins): iteration t of the reverse triangle loops
BpropLoopRowMajor(t, d) == [m |-> t \div NIns(d), n |-> t % NIns(d)]

BpropLoop(t, d) == [n |-> t \div NIns(d), m |-> t % NIns(d)]

\* (n > m) ? h_ref[out_stride + cur_idx++] : 0
BpropTakeLower(m, n) == m > n

BpropTake(m, n) == n > m

\* size_t cur_idx = 0;  (host bprop)
BpropCurStartOne(p) == 1

BpropCurStart(p) == 0

\* h_in_mlp[...] = h_ref[...]: the dense buffer is assigned, its old value dropped
DenseGradInitKeep(old, g) == old + g

DenseGradInit(old, g) == g

\* h_in_mlp[p * in_width + i] = h_ref[out_stride + cur_idx++];  st = [mlp, mat, cur]
RECURSIVE DisassembleDense(_, _, _, _, _)
DisassembleDense(st, ref, p, i, d) ==
  IF i >= d.in_width THEN st
  ELSE DisassembleDense([st EXCEPT !.mlp[p * d.in_width + i] =
                                      DenseGradInit(st.mlp[p * d.in_width + i],
                                                    ref[OutStride(p, d) + st.cur]),
                                   !.cur = st.cur + 1],
                        ref, p, i + 1, d)

\* h_mat[mat_stride + m * n_ins + n] = (n > m) ? h_ref[out_stride + cur_idx++] : 0;
RECURSIVE DisassembleTri(_, _, _, _, _)
DisassembleTri(st, ref, p, t, d) ==
  IF t >= NIns(d) * NIns(d) THEN st
  ELSE LET mn == BpropLoop(t, d)
           idx == MatStride(p, d) + mn.m * NIns(d) + mn.n
       IN IF BpropTake(mn.m, mn.n)
          THEN DisassembleTri([st EXCEPT !.mat[idx] = ref[OutStride(p, d) + st.cur],
                                         !.cur = st.cur + 1],
                              ref, p, t + 1, d)
          ELSE DisassembleTri([st EXCEPT !.mat[idx] = 0], ref, p, t + 1, d)

\* for (p < height) { size_t cur_idx = 0; ... }
RECURSIVE DisassembleAll(_, _, _, _)
DisassembleAll(st, ref, p, d) ==
  IF p >= d.height THEN st
  ELSE LET s1 == DisassembleDense([st EXCEPT !.cur = BpropCurStart(p)], ref, p, 0, d)
           s2 == DisassembleTri(s1, ref, p, 0, d)
       IN DisassembleAll(s2, ref, p + 1, d)

\* ------------------------------------------------------------------ recombination
\* float get_sec_accum(const T a, const T b, const T c) { return float((a + b) * c); }
GetSecAccumOneSided(a, b, c) == a * c

GetSecAccum(a, b, c) == (a + b) * c

\* h_concat_tmp[concat_stride + k * in_width + n]: the copy, not the array being written
RecombineReadInPlace(concat, concat_tmp, idx) == concat[idx]

RecombineRead(concat, concat_tmp, idx) == concat_tmp[idx]

\* for (k < n_ins) accum += get_sec_accum(h_mat[m,k], h_mat[k,m], h_concat_tmp[k,n]);
RECURSIVE SecAccum(_, _, _, _, _, _, _, _, _)
SecAccum(concat, concat_tmp, mat, p, m, n, k, accum, d) ==
  IF k >= NIns(d) THEN accum
  ELSE SecAccum(concat, concat_tmp, mat, p, m, n, k + 1,
                accum + GetSecAccum(mat[MatStride(p, d) + m * NIns(d) + k],
                                    mat[MatStride(p, d) + k * NIns(d) + m],
                                    RecombineRead(concat, concat_tmp,
                                                  ConcatStride(p, d) + k * d.in_width + n)),
                d)

\* the loops over p, m, n writing h_concat, iteration t of height*n_ins*in_width
RECURSIVE RecombineFill(_, _, _, _, _)
RecombineFill(concat, concat_tmp, mat, t, d) ==
  IF t >= d.height * NIns(d) * d.in_width THEN concat
  ELSE LET p == t \div (NIns(d) * d.in_width)
           m == (t \div d.in_width) % NIns(d)
           n == t % d.in_width
       IN RecombineFill([concat EXCEPT ![ConcatStride(p, d) + m * d.in_width + n] =
                           1 * SecAccum(concat, concat_tmp, mat, p, m, n, 0, 0, d)],
                        concat_tmp, mat, t + 1, d)

\* h_mat_tmp[m,n] = h_mat[m,n] + h_mat[n,m], iteration t of height*n_ins*n_ins
RECURSIVE SymFill(_, _, _, _)
SymFill(mat_tmp, mat, t, d) ==
  IF t >= d.height * NIns(d) * NIns(d) THEN mat_tmp
  ELSE LET p == t \div (NIns(d) * NIns(d))
           m == (t \div NIns(d)) % NIns(d)
           n == t % NIns(d)
       IN SymFill([mat_tmp EXCEPT ![MatStride(p, d) + m * NIns(d) + n] =
                     mat[MatStride(p, d) + m * NIns(d) + n] +
                     mat[MatStride(p, d) + n * NIns(d) + m]],
                  mat, t + 1, d)

\* ------------------------------------------------------------------ host bprop
\* The whole reverse pass on output gradient ref, from the host state left by
\* the forward pass: disassembly, recombination, concat_op(false).
BackwardResult(ref, mlp, emb, concat, mat, d) ==
  LET st == DisassembleAll([mlp |-> mlp, mat |-> mat, cur |-> 0], ref, 0, d)
      mg == RecombineFill(concat, concat, st.mat, 0, d)
      io == ConcatBprop([mlp |-> st.mlp, emb |-> emb], mg, 0, d)
  IN [GramGrad |-> st.mat, denseGrad |-> io.mlp, embeddingGrad |-> io.emb]

\* ------------------------------------------------------------------ state machine
DimSet ==
  {d \in [height : 1..MaxHeight, n_emb : 1..MaxNEmb, in_width : 1..MaxInWidth] :
     d.height * NIns(d) * d.in_width <= MaxCells}

\* the concrete scenario height=2, in_width=2, n_emb=1
ScenDims == Dims(2, 1, 2)
ScenMlp == Flat(<<1, 2, 3, 4>>)
ScenEmb == Flat(<<5, 6, 7, 8>>)

InitWith(d, mlp, emb) ==
  /\ height = d.height /\ n_emb = d.n_emb /\ in_width = d.in_width
  /\ h_in_mlp = mlp /\ h_in_emb = emb
  /\ in_mlp0 = mlp /\ in_emb0 = emb
  /\ h_concat = Zeros(d.height * OutWidth(d))
  /\ h_mat = << >> /\ h_ref = << >> /\ h_concat_tmp = << >> /\ h_mat_tmp = << >>
  /\ pc = "concat"
  /\ BarrierIdle
  /\ OpIdle

Init ==
  \/ \E d \in DimSet :
       \E mlp \in [0..(d.height * d.in_width - 1) -> 0..MaxVal] :
         \E emb \in [0..(d.height * d.n_emb * d.in_width - 1) -> 0..MaxVal] :
           InitWith(d, mlp, emb)
  \/ InitWith(ScenDims, ScenMlp, ScenEmb)

D == Dims(height, n_emb, in_width)

\* concat_op(true);
Concat ==
  /\ pc = "concat"
  /\ h_concat' = ConcatFprop(h_concat, h_in_mlp, h_in_emb, 0, D)
  /\ pc' = "matmul"
  /\ UNCHANGED <<height, n_emb, in_width, h_in_mlp, h_in_emb, h_mat, h_ref,
                 h_concat_tmp, h_mat_tmp, in_mlp0, in_emb0>>
  /\ UNCHANGED othervars

\* std::vector<T> h_mat(height * n_ins * n_ins, 0); and the loops filling it
Matmul ==
  /\ pc = "matmul"
  /\ h_mat' = GramFill(Zeros(height * NIns(D) * NIns(D)), h_concat, 0, D)
  /\ pc' = "assemble"
  /\ UNCHANGED <<height, n_emb, in_width, h_in_mlp, h_in_emb, h_concat, h_ref,
                 h_concat_tmp, h_mat_tmp, in_mlp0, in_emb0>>
  /\ UNCHANGED othervars

\* std::vector<T> h_ref(height * out_len, 0.0); and the loops filling it
Assemble ==
  /\ pc = "assemble"
  /\ h_ref' = AssembleAll(Zeros(height * OutLen(D)), h_in_mlp, h_mat, 0, D)
  /\ pc' = "fprop_done"
  /\ UNCHANGED <<height, n_emb, in_width, h_in_mlp, h_in_emb, h_concat, h_mat,
                 h_concat_tmp, h_mat_tmp, in_mlp0, in_emb0>>
  /\ UNCHANGED othervars

\* The caller hands backward its output gradient in the output buffer: one
\* value g at one position, zero elsewhere.
TopGrad ==
  /\ pc = "fprop_done"
  /\ \E c \in 0..(height * OutLen(D) - 1) :
       \E g \in 1..MaxGrad :
         h_ref' = [i \in 0..(height * OutLen(D) - 1) |-> IF i = c THEN g ELSE 0]
  /\ pc' = "top_grad"
  /\ UNCHANGED <<height, n_emb, in_width, h_in_mlp, h_in_emb, h_concat, h_mat,
                 h_concat_tmp, h_mat_tmp, in_mlp0, in_emb0>>
  /\ UNCHANGED othervars

\* host bprop, first loop nest: h_ref -> h_in_mlp, h_mat
Disassemble ==
  /\ pc \in {"fprop_done", "top_grad"}
  /\ LET st == DisassembleAll([mlp |-> h_in_mlp, mat |-> h_mat, cur |-> 0], h_ref, 0, D)
     IN /\ h_in_mlp' = st.mlp
        /\ h_mat' = st.mat
  /\ pc' = "recombine"
  /\ UNCHANGED <<height, n_emb, in_width, h_in_emb, h_concat, h_ref,
                 h_concat_tmp, h_mat_tmp, in_mlp0, in_emb0>>
  /\ UNCHANGED othervars

\* std::vector<T> h_concat_tmp(h_concat); the recombination loops; h_mat_tmp
Recombine ==
  /\ pc = "recombine"
  /\ h_concat_tmp' = h_concat
  /\ h_concat' = RecombineFill(h_concat, h_concat, h_mat, 0, D)
  /\ h_mat_tmp' = SymFill(h_mat, h_mat, 0, D)
  /\ pc' = "scatter"
  /\ UNCHANGED <<height, n_emb, in_width, h_in_mlp, h_in_emb, h_mat, h_ref,
                 in_mlp0, in_emb0>>
  /\ UNCHANGED othervars

\* concat_op(false);
Scatter ==
  /\ pc = "scatter"
  /\ LET io == ConcatBprop([mlp |-> h_in_mlp, emb |-> h_in_emb], h_concat, 0, D)
     IN /\ h_in_mlp' = io.mlp
        /\ h_in_emb' = io.emb
  /\ pc' = "done"
  /\ UNCHANGED <<height, n_emb, in_width, h_concat, h_mat, h_ref,
                 h_concat_tmp, h_mat_tmp, in_mlp0, in_emb0>>
  /\ UNCHANGED othervars

Next ==
  \/ Concat
  \/ Matmul
  \/ Assemble
  \/ TopGrad
  \/ Disassemble
  \/ Recombine
  \/ Scatter

Spec == Init /\ [][Next]_vars
\* ------------------------------------------------------------------ Barrier
Threads == 1..MaxThreads

\* Barrier::Barrier(thread_count): count_(thread_count), generation_(0)
BarrierInit ==
  /\ InteractionIdle
  /\ OpIdle
  /\ thread_count_ \in 1..MaxThreads
  /\ count_ = thread_count_
  /\ generation_ = 0
  /\ mu_ = 0
  /\ b_pc = [t \in Threads |-> "idle"]
  /\ local_gen = [t \in Threads |-> 0]
  /\ calls = [t \in Threads |-> 0]
  /\ arrivals = 0
  /\ notified = {}

\* count_ = thread_count_;
ResetCountShort(tc) == tc - 1

ResetCount(tc) == tc

\* [this, local_gen]() { return local_gen != generation_; }
WaitPred(local, gen) == local # gen

\* if (local_gen == generation_) throw std::runtime_error("Blocking threads time out.");
ThrowCheckNever(local, gen) == FALSE

ThrowCheckAlways(local, gen) == TRUE

ThrowCheck(local, gen) == local = gen

\* sync_cpu_threads() -> barrier_->wait(): std::unique_lock<std::mutex> lock(mu_);
Lock(t) ==
  /\ b_pc[t] \in {"idle", "returned", "thrown"}
  /\ calls[t] < MaxCalls
  /\ mu_ = 0
  /\ mu_' = t
  /\ b_pc' = [b_pc EXCEPT ![t] = "locked"]
  /\ calls' = [calls EXCEPT ![t] = calls[t] + 1]
  /\ UNCHANGED <<thread_count_, count_, generation_, local_gen, arrivals, notified, ivars,
                 opvars>>

\* auto local_gen = generation_; if (!--count_) ... else cond_.wait_for(...):
\* the last arriver goes on to release; any other finds the predicate false
\* and blocks, which unlocks mu_.
Arrive(t) ==
  /\ b_pc[t] = "locked"
  /\ local_gen' = [local_gen EXCEPT ![t] = generation_]
  /\ count_' = count_ - 1
  /\ arrivals' = arrivals + 1
  /\ IF count_ - 1 = 0
     THEN /\ b_pc' = [b_pc EXCEPT ![t] = "release"]
          /\ UNCHANGED mu_
     ELSE /\ b_pc' = [b_pc EXCEPT ![t] = "waiting"]
          /\ mu_' = 0
  /\ UNCHANGED <<thread_count_, generation_, calls, notified, ivars, opvars>>

\* cond_.notify_all(): every thread blocked in wait_for is notified
NotifyOne(ws) == IF ws = {} THEN {} ELSE {CHOOSE u \in ws : TRUE}

NotifyAll(ws) == ws

\* generation_++; count_ = thread_count_; cond_.notify_all(); and the return
Release(t) ==
  /\ b_pc[t] = "release"
  /\ generation_' = generation_ + 1
  /\ count_' = ResetCount(thread_count_)
  /\ notified' = notified \cup NotifyAll({u \in Threads : b_pc[u] = "waiting"})
  /\ b_pc' = [b_pc EXCEPT ![t] = "returned"]
  /\ mu_' = 0
  /\ UNCHANGED <<thread_count_, local_gen, calls, arrivals, ivars, opvars>>

\* wait_for wakes (notify_all, a spurious wakeup or the timeout) and takes mu_ again
Wake(t) ==
  /\ b_pc[t] = "waiting"
  /\ mu_ = 0
  /\ mu_' = t
  /\ b_pc' = [b_pc EXCEPT ![t] = "woken"]
  /\ notified' = notified \ {t}
  /\ UNCHANGED <<thread_count_, count_, generation_, local_gen, calls, arrivals, ivars, opvars>>

\* wait_for evaluates the predicate: it returns when the predicate holds or
\* time_threshold_ has passed, and blocks again otherwise; after it returns,
\* the call throws or returns, which unlocks mu_.
RecheckWith(t, timed_out) ==
  /\ b_pc[t] = "woken"
  /\ IF WaitPred(local_gen[t], generation_) \/ timed_out
     THEN IF ThrowCheck(local_gen[t], generation_)
          THEN b_pc' = [b_pc EXCEPT ![t] = "thrown"]
          ELSE b_pc' = [b_pc EXCEPT ![t] = "returned"]
     ELSE b_pc' = [b_pc EXCEPT ![t] = "waiting"]
  /\ mu_' = 0
  /\ UNCHANGED <<thread_count_, count_, generation_, local_gen, calls, arrivals, notified,
                 ivars, opvars>>

Recheck(t) == \E timed_out \in BOOLEAN : RecheckWith(t, timed_out)

BarrierNext ==
  \E t \in Threads :
    \/ Lock(t)
    \/ Arrive(t)
    \/ Release(t)
    \/ Wake(t)
    \/ Recheck(t)

BarrierSpec == BarrierInit /\ [][BarrierNext]_vars

\* thread_count threads use the barrier, each calling wait once per round, and
\* no wait_for reaches time_threshold_.
Participant(t) == t \in 1..thread_count_

Call(t) == Participant(t) /\ Lock(t)

RecheckInTime(t) == RecheckWith(t, FALSE)

BarrierLiveNext ==
  \E t \in Threads :
    \/ Call(t)
    \/ Arrive(t)
    \/ Release(t)
    \/ Wake(t)
    \/ RecheckInTime(t)

\* Scheduling: a thread that holds mu_ goes on (WF); a thread that calls wait,
\* or that notify_all has reached, gets mu_ if mu_ is free again and again
\* (SF).  A thread that was not notified may wake spuriously but need not.
BarrierFairness ==
  \A t \in Threads :
    /\ SF_vars(Call(t))
    /\ WF_vars(Arrive(t))
    /\ WF_vars(Release(t))
    /\ SF_vars(Wake(t) /\ t \in notified)
    /\ WF_vars(RecheckInTime(t))

BarrierLiveSpec == BarrierInit /\ [][BarrierLiveNext]_vars /\ BarrierFairness

\* ------------------------------------------------------------------ operator
\* The operator instance of the forward / backward contract: it is built for
\* one shape, keeps the concatenated matrix and the Gram matrix of a forward
\* call for the backward call that follows, and raises ShapeMismatch or
\* InvalidSequence before doing any work.  Both conditions are fatal: no call
\* follows a failed one.  The numeric steps are the ones of the host code.
OpDimSet ==
  {d \in [height : 1..MaxHeight, n_emb : 1..MaxNEmb, in_width : 1..MaxInWidth] :
     d.height * NIns(d) * d.in_width <= MaxOpCells}

\* shapes a caller may hand in: dense [height, in_width], embeddings
\* [height, n_emb, in_width], outputGrad [height, out_len]
DenseDimSet ==
  {d \in [height : 1..MaxHeight, in_width : 1..MaxInWidth] :
     d.height * d.in_width <= MaxOpCells}

EmbDimSet ==
  {d \in [height : 1..MaxHeight, n_emb : 1..MaxNEmb, in_width : 1..MaxInWidth] :
     d.height * d.n_emb * d.in_width <= MaxOpCells}

GradDims(d) == [height |-> d.height, out_len |-> OutLen(d)]

GradDimSet == {[height |-> h, out_len |-> OutLen(d)] : h \in 1..MaxHeight, d \in EmbDimSet}

\* the dimensions in which the arrays of a forward call disagree with each
\* other or with the configured shape
Disagree(dd, ed, shape) ==
  {n \in {"height"} : dd.height # ed.height \/ ed.height # shape.height}
    \cup {n \in {"n_emb"} : ed.n_emb # shape.n_emb}
    \cup {n \in {"in_width"} : dd.in_width # ed.in_width \/ ed.in_width # shape.in_width}

\* the dimensions in which the output gradient of a backward call disagrees
\* with the configured shape (out_len is fixed by n_emb and in_width)
GradDisagree(gd, shape) ==
  {n \in {"height"} : gd.height # shape.height}
    \cup {n \in {"out_len"} : gd.out_len # OutLen(shape)}

OpInit ==
  /\ InteractionIdle
  /\ BarrierIdle
  /\ \E d \in OpDimSet :
       /\ op_shape = d
       /\ op_matrix = Zeros(d.height * OutWidth(d))
       /\ op_gram = Zeros(d.height * NIns(d) * NIns(d))
       /\ op_output = Zeros(d.height * OutLen(d))
       /\ op_dense_grad = Zeros(d.height * d.in_width)
       /\ op_emb_grad = Zeros(d.height * d.n_emb * d.in_width)
  /\ op_last = "none" /\ op_err = {}
  /\ op_in = [dense |-> << >>, emb |-> << >>] /\ op_og = << >>
  /\ op_call = [kind |-> "none", dis |-> {}]
  /\ op_prev = "none" /\ op_replaced = FALSE

\* ShapeMismatch: the inputs disagree with each other or with the configured shape
ShapeOKInputsOnly(dd, ed, shape) == dd.height = ed.height /\ dd.in_width = ed.in_width

ShapeOK(dd, ed, shape) ==
  dd.height = ed.height /\ dd.in_width = ed.in_width /\ ed = shape

GradShapeOK(gd, shape) == gd = GradDims(shape)

\* InvalidSequence: backward needs the call before it to be a successful forward
SeqOKAnyPrior(last) == last # "none"

SeqOK(last) == last = "forward"

\* a scratch buffer of n elements, reused across calls
OpBuf(old, n) == IF DOMAIN old = 0..(n - 1) THEN old ELSE Zeros(n)

\* the pad element is written as 0 unconditionally
OpPadZero(ref, d) ==
  [i \in DOMAIN ref |-> IF i % OutLen(d) = OutLen(d) - 1 THEN 0 ELSE ref[i]]

\* the matrix a forward call retains for the backward call that follows
OpRetainFirst(old, new, last) == IF last = "none" THEN new ELSE old

OpRetain(old, new, last) == new

\* forward: Concatenator -> MatrixComputer -> Assembler on the scratch buffers
ForwardResult(matrix, gram, output, dense, emb, d) ==
  LET m == ConcatFprop(OpBuf(matrix, d.height * OutWidth(d)), dense, emb, 0, d)
      g == GramFill(OpBuf(gram, d.height * NIns(d) * NIns(d)), m, 0, d)
      o == OpPadZero(AssembleAll(OpBuf(output, d.height * OutLen(d)), dense, g, 0, d), d)
  IN [matrix |-> m, gram |-> g, output |-> o]

OpCalled(kind, dis) ==
  /\ op_call' = [kind |-> kind, dis |-> dis]
  /\ op_prev' = op_call.kind

\* forward(dense, embeddings) with well-shaped inputs
ForwardOk ==
  /\ op_err = {}
  /\ \E dd \in DenseDimSet : \E ed \in EmbDimSet :
       /\ ShapeOK(dd, ed, op_shape)
       /\ \E dense \in [0..(op_shape.height * op_shape.in_width - 1) -> 0..MaxVal] :
            \E emb \in [0..(op_shape.height * op_shape.n_emb * op_shape.in_width - 1)
                          -> 0..MaxVal] :
              LET r == ForwardResult(op_matrix, op_gram, op_output, dense, emb, op_shape)
                  kept == OpRetain(op_matrix, r.matrix, op_last)
              IN /\ op_matrix' = kept
                 /\ op_gram' = r.gram
                 /\ op_output' = r.output
                 /\ op_in' = [dense |-> dense, emb |-> emb]
                 /\ op_replaced' = (op_last # "none" /\ op_matrix # r.matrix)
       /\ OpCalled("forward", Disagree(dd, ed, op_shape))
  /\ op_last' = "forward"
  /\ UNCHANGED <<op_shape, op_err, op_dense_grad, op_emb_grad, op_og, ivars, barvars>>

\* forward(dense, embeddings) with inputs of the wrong shape
ForwardFail ==
  /\ op_err = {}
  /\ \E dd \in DenseDimSet : \E ed \in EmbDimSet :
       /\ ~ShapeOK(dd, ed, op_shape)
       /\ OpCalled("forward", Disagree(dd, ed, op_shape))
  /\ op_err' = {"ShapeMismatch"}
  /\ UNCHANGED <<op_shape, op_last, op_matrix, op_gram, op_output, op_dense_grad,
                 op_emb_grad, op_in, op_og, op_replaced, ivars, barvars>>

\* backward(outputGrad) in sequence and well-shaped
BackwardOk ==
  /\ op_err = {}
  /\ SeqOK(op_last)
  /\ \E gd \in GradDimSet :
       /\ GradShapeOK(gd, op_shape)
       /\ \E c \in 0..(op_shape.height * OutLen(op_shape) - 1) : \E g \in {1, MaxGrad} :
            LET og == [i \in 0..(op_shape.height * OutLen(op_shape) - 1) |->
                        IF i = c THEN g ELSE 0]
                r == BackwardResult(og, op_dense_grad, op_emb_grad, op_matrix, op_gram,
                                    op_shape)
            IN /\ op_dense_grad' = r.denseGrad
               /\ op_emb_grad' = r.embeddingGrad
               /\ op_og' = og
       /\ OpCalled("backward", GradDisagree(gd, op_shape))
  /\ op_last' = "backward"
  /\ UNCHANGED <<op_shape, op_err, op_matrix, op_gram, op_output, op_in, op_replaced,
                 ivars, barvars>>

\* backward(outputGrad) out of sequence, or with an output gradient of the wrong
\* shape; a shape that disagrees with the forward call may be reported as
\* InvalidSequence as well
BackwardFail ==
  /\ op_err = {}
  /\ \E gd \in GradDimSet :
       /\ ~SeqOK(op_last) \/ ~GradShapeOK(gd, op_shape)
       /\ \E also \in (IF GradShapeOK(gd, op_shape) THEN {{}} ELSE {{}, {"InvalidSequence"}}) :
            op_err' = (IF SeqOK(op_last) THEN {} ELSE {"InvalidSequence"})
                        \cup (IF GradShapeOK(gd, op_shape) THEN {} ELSE {"ShapeMismatch"})
                        \cup also
       /\ OpCalled("backward", GradDisagree(gd, op_shape))
  /\ UNCHANGED <<op_shape, op_last, op_matrix, op_gram, op_output, op_dense_grad,
                 op_emb_grad, op_in, op_og, op_replaced, ivars, barvars>>

OpNext ==
  \/ ForwardOk
  \/ ForwardFail
  \/ BackwardOk
  \/ BackwardFail

OpSpec == OpInit /\ [][OpNext]_vars

\* ------------------------------------------------------------------ views
\* The arrays of the claims, indexed [sample, row, column] over the flat buffers.
NI == 1 + n_emb
OL == in_width + (NI * (NI - 1)) \div 2 + 1
Samples == 0..(height - 1)
Rows == 0..(NI - 1)
Cols == 0..(in_width - 1)
Embs == 0..(n_emb - 1)

Dense0(b, i) == in_mlp0[b * in_width + i]
Emb0(b, e, i) == in_emb0[(b * n_emb + e) * in_width + i]
FwdMatrix(b, r, k) == IF r = 0 THEN Dense0(b, k) ELSE Emb0(b, r - 1, k)
Matrix(b, r, k) == h_concat[(b * NI + r) * in_width + k]
Gram(b, i, j) == h_mat[(b * NI + i) * NI + j]
Output(b, c) == h_ref[b * OL + c]
DenseBuf(b, i) == h_in_mlp[b * in_width + i]
EmbBuf(b, e, i) == h_in_emb[(b * n_emb + e) * in_width + i]
TriPos(m, n) == in_width + (n * (n - 1)) \div 2 + m

RECURSIVE SumFn(_, _)
SumFn(f, n) == IF n = 0 THEN 0 ELSE f[n - 1] + SumFn(f, n - 1)

Scen ==
  /\ height = 2 /\ in_width = 2 /\ n_emb = 1
  /\ in_mlp0 = ScenMlp /\ in_emb0 = ScenEmb

\* ------------------------------------------------------------------ claims
\* C1: after forward, every output row has length
\* in_width + n_ins*(n_ins-1)/2 + 1 and its last element, the pad slot, is 0.
C1_PadZero ==
  pc = "fprop_done" =>
    /\ DOMAIN h_ref = 0..(height * OL - 1)
    /\ \A b \in Samples : Output(b, OL - 1) = 0

\* C1 witness: a forward output with two or more embeddings whose last
\* interaction term, right before the pad slot, is not zero.
C1_Witness ==
  /\ pc = "fprop_done" /\ n_emb >= 2
  /\ \E b \in Samples : Output(b, OL - 2) # 0 /\ Output(b, OL - 1) = 0

\* C2: after forward, output[b, i] = dense[b, i] for i < in_width and
\* Gram[b, m, n] sits at output[b, in_width + n*(n-1)/2 + m] for m < n; these
\* positions are pairwise distinct and fill in_width .. out_len-2 without gaps.
C2_Layout ==
  pc = "fprop_done" =>
    /\ \A b \in Samples :
         /\ \A i \in Cols : Output(b, i) = Dense0(b, i)
         /\ \A n \in Rows : \A m \in 0..(n - 1) :
              Output(b, TriPos(m, n)) = Gram(b, m, n)
    /\ {TriPos(pr[1], pr[2]) : pr \in {q \in Rows \X Rows : q[1] < q[2]}}
         = in_width..(OL - 2)
    /\ Cardinality({q \in Rows \X Rows : q[1] < q[2]}) = OL - 1 - in_width

\* C2 witness: four input rows, where column-major and row-major enumeration
\* of the triangle differ, with Gram[1,2] # Gram[0,3].
C2_Witness ==
  /\ pc = "fprop_done" /\ n_emb = 3
  /\ Gram(0, 1, 2) # Gram(0, 0, 3)
  /\ Output(0, TriPos(1, 2)) = Gram(0, 1, 2)

\* C3: the Gram matrix of a forward call is Gram[b,i,j] =
\* sum over k < in_width of matrix[b,i,k] * matrix[b,j,k], and is symmetric.
C3_Gram ==
  pc \in {"assemble", "fprop_done", "top_grad"} =>
    \A b \in Samples : \A i \in Rows : \A j \in Rows :
      /\ Gram(b, i, j) =
           SumFn([k \in Cols |-> Matrix(b, i, k) * Matrix(b, j, k)], in_width)
      /\ Gram(b, i, j) = Gram(b, j, i)

\* C3 witness: the second sample of a batch has a non-zero interaction term
\* and a matrix that differs from the first sample's.
C3_Witness ==
  /\ pc = "assemble" /\ height = 2
  /\ Gram(1, 0, 1) # 0
  /\ \E r \in Rows : \E k \in Cols : Matrix(0, r, k) # Matrix(1, r, k)

\* C4: concat yields matrix[b,0,:] = dense[b,:] and
\* matrix[b,e+1,:] = embeddings[b,e,:] for every sample b and embedding e.
C4_Concat ==
  pc \in {"matmul", "assemble", "fprop_done", "top_grad", "recombine"} =>
    \A b \in Samples : \A k \in Cols :
      /\ Matrix(b, 0, k) = Dense0(b, k)
      /\ \A e \in Embs : Matrix(b, e + 1, k) = Emb0(b, e, k)

\* C4 witness: two samples with two embeddings each, where the second
\* embedding of sample 0 differs from the first embedding of sample 1.
C4_Witness ==
  /\ pc = "matmul" /\ height = 2 /\ n_emb = 2
  /\ Emb0(0, 1, 0) # Emb0(1, 0, 0)
  /\ Matrix(1, 1, 0) = Emb0(1, 0, 0)

\* C5: after the recombination, matrixGrad[b,m,n] = sum over k < n_ins of
\* (GramGrad[b,m,k] + GramGrad[b,k,m]) * matrix[b,k,n], with matrix the
\* concatenated matrix of the forward call.
C5_Recombine ==
  pc \in {"scatter", "done"} =>
    \A b \in Samples : \A m \in Rows : \A n \in Cols :
      Matrix(b, m, n) =
        SumFn([k \in Rows |-> (Gram(b, m, k) + Gram(b, k, m)) * FwdMatrix(b, k, n)], NI)

\* C5 witness: row 0 of the matrix gradient differs from row 0 of the forward
\* matrix, and a later row's gradient depends on row 0 of the matrix.
C5_Witness ==
  /\ pc = "scatter"
  /\ \E b \in Samples :
       /\ Gram(b, 0, 1) # 0
       /\ \E n \in Cols : Matrix(b, 0, n) # FwdMatrix(b, 0, n) /\ FwdMatrix(b, 0, n) # 0

\* C6: disassemble sets GramGrad[b,m,n] = outputGrad[b, in_width + n*(n-1)/2 + m]
\* for m < n and GramGrad[b,m,n] = 0 for m >= n.
C6_Disassemble ==
  pc \in {"recombine", "scatter", "done"} =>
    \A b \in Samples : \A m \in Rows : \A n \in Rows :
      Gram(b, m, n) = IF m < n THEN Output(b, TriPos(m, n)) ELSE 0

\* C6 witness: an output gradient with a non-zero interaction term for three
\* or more input rows has been disassembled.
C6_Witness ==
  /\ pc = "recombine" /\ n_emb >= 2
  /\ \E b \in Samples : \E n \in Rows : \E m \in 0..(n - 1) : Gram(b, m, n) # 0

\* C7: scatter adds matrixGrad[b,0,:] to what the dense-gradient buffer holds
\* and assigns matrixGrad[b,e+1,:] to the embedding-gradient buffer.
C7_Scatter ==
  [][pc = "scatter" =>
       \A b \in Samples : \A i \in Cols :
         /\ h_in_mlp'[b * in_width + i] = DenseBuf(b, i) + Matrix(b, 0, i)
         /\ \A e \in Embs :
              h_in_emb'[(b * n_emb + e) * in_width + i] = Matrix(b, e + 1, i)]_vars

\* C7 witness: scatter has run on a dense buffer that was not zero and on an
\* embedding buffer that was not zero, with non-zero gradients for both.
C7_Witness ==
  /\ pc = "done"
  /\ \E b \in Samples : \E i \in Cols :
       /\ Matrix(b, 0, i) # 0
       /\ DenseBuf(b, i) # Matrix(b, 0, i)
       /\ Emb0(b, 0, i) # 0
       /\ Matrix(b, 1, i) # 0
       /\ EmbBuf(b, 0, i) = Matrix(b, 1, i)

\* C8: with n_ins = 2 and an output gradient that is 0 in the dense columns
\* and g at the interaction term, denseGrad = g * emb and embeddingGrad = g * dense.
C8_ScalarLaw ==
  (/\ pc = "done" /\ n_emb = 1
   /\ \A b \in Samples : \A i \in Cols : Output(b, i) = 0) =>
    \A b \in Samples : \A i \in Cols :
      /\ DenseBuf(b, i) = Output(b, in_width) * Emb0(b, 0, i)
      /\ EmbBuf(b, 0, i) = Output(b, in_width) * Dense0(b, i)

\* C8 witness: a backward call with g = 2 on a sample whose dense and
\* embedding vectors are not zero.
C8_Witness ==
  /\ pc = "done" /\ n_emb = 1
  /\ \A b \in Samples : \A i \in Cols : Output(b, i) = 0
  /\ \E b \in Samples : \E i \in Cols :
       Output(b, in_width) = 2 /\ Emb0(b, 0, i) # 0 /\ Dense0(b, i) # 0

\* C9: in the scenario dense=[[1,2],[3,4]], emb=[[[5,6]],[[7,8]]], forward
\* gives sample 0 the Gram matrix [[5,17],[17,61]] and the output row [1,2,17,0].
C9_Scenario ==
  (Scen /\ pc = "fprop_done") =>
    /\ [k \in 0..3 |-> h_mat[k]] = Flat(<<5, 17, 17, 61>>)
    /\ [k \in 0..3 |-> h_ref[k]] = Flat(<<1, 2, 17, 0>>)

\* C9 witness: the forward pass of the scenario has completed.
C9_Witness == Scen /\ pc = "fprop_done" /\ h_ref[2] = 17

\* C10: in the scenario, backward with outputGrad[0] = [0,0,1,0] gives
\* GramGrad[0] = [[0,1],[0,0]], denseGrad[0] = [5,6], embeddingGrad[0] = [1,2].
C10_ScenarioBackward ==
  (Scen /\ pc = "done" /\ [k \in 0..3 |-> h_ref[k]] = Flat(<<0, 0, 1, 0>>)) =>
    /\ [k \in 0..3 |-> h_mat[k]] = Flat(<<0, 1, 0, 0>>)
    /\ [k \in 0..1 |-> h_in_mlp[k]] = Flat(<<5, 6>>)
    /\ [k \in 0..1 |-> h_in_emb[k]] = Flat(<<1, 2>>)

\* C10 witness: the backward pass of the scenario has completed on that gradient.
C10_Witness ==
  /\ Scen /\ pc = "done"
  /\ [k \in 0..3 |-> h_ref[k]] = Flat(<<0, 0, 1, 0>>)
  /\ h_in_mlp[0] = 5

\* C11: the pad slot carries no gradient: backward on two output gradients
\* that differ only in pad elements gives the same GramGrad, denseGrad and
\* embeddingGrad.
C11_PadNoGradient ==
  pc \in {"fprop_done", "top_grad"} =>
    \A b \in Samples : \A q \in {0, MaxGrad + 1} :
      BackwardResult([h_ref EXCEPT ![b * OL + OL - 1] = q],
                     h_in_mlp, h_in_emb, h_concat, h_mat, D)
        = BackwardResult(h_ref, h_in_mlp, h_in_emb, h_concat, h_mat, D)

\* C11 witness: an output gradient whose last interaction term is not zero,
\* compared with the one whose pad element is changed to another value, and a
\* backward result that is not zero.
C11_Witness ==
  /\ pc \in {"fprop_done", "top_grad"}
  /\ \E b \in Samples :
       /\ Output(b, OL - 2) # 0
       /\ Output(b, OL - 1) # MaxGrad + 1
       /\ \E i \in DOMAIN h_in_emb :
            BackwardResult([h_ref EXCEPT ![b * OL + OL - 1] = MaxGrad + 1],
                           h_in_mlp, h_in_emb, h_concat, h_mat, D).embeddingGrad[i] # 0

\* C12: a backward call with no forward before it, or right after another
\* backward, fails with InvalidSequence; a backward call succeeds only when
\* the call immediately before it was a successful forward.
C12_InvalidSequence ==
  op_call.kind = "backward" =>
    /\ op_prev \in {"none", "backward"} => "InvalidSequence" \in op_err
    /\ op_err = {} => op_prev = "forward" /\ op_last = "backward"

\* C12 witness: a backward call directly after a successful backward has been
\* refused with InvalidSequence, the gradients of the earlier one in place.
C12_Witness ==
  /\ op_call.kind = "backward"
  /\ op_prev = "backward"
  /\ "InvalidSequence" \in op_err
  /\ \E i \in DOMAIN op_emb_grad : op_emb_grad[i] # 0

\* C13: a forward or backward call whose arrays disagree with each other or
\* with the configured shape fails with ShapeMismatch, and the output, the
\* gradient arrays, the concatenated matrix and the Gram matrix are the ones
\* from before the call.
C13_ShapeMismatch ==
  [][(op_call'.kind \in {"forward", "backward"} /\ op_call'.dis # {}) =>
       /\ "ShapeMismatch" \in op_err'
       /\ UNCHANGED <<op_output, op_dense_grad, op_emb_grad, op_matrix, op_gram>>]_vars

\* C13 witness: after a successful forward and backward, a forward call with
\* an embedding array of another shape has been refused, the earlier output
\* and gradients being non-zero.
C13_Witness ==
  /\ op_call.kind = "forward"
  /\ "n_emb" \in op_call.dis
  /\ op_prev = "backward"
  /\ "ShapeMismatch" \in op_err
  /\ \E i \in DOMAIN op_output : op_output[i] # 0
  /\ \E i \in DOMAIN op_emb_grad : op_emb_grad[i] # 0

\* C14: a successful backward follows a forward call directly and its
\* gradients are the ones computed from the concatenated matrix of that
\* forward call's inputs alone; nothing retained from an earlier forward
\* reaches them.
C14_BackwardUsesLastForward ==
  (op_call.kind = "backward" /\ op_err = {}) =>
    LET d == op_shape
        fm == ConcatFprop(Zeros(d.height * OutWidth(d)), op_in.dense, op_in.emb, 0, d)
        r == BackwardResult(op_og, Zeros(d.height * d.in_width),
                            Zeros(d.height * d.n_emb * d.in_width), fm,
                            Zeros(d.height * NIns(d) * NIns(d)), d)
    IN /\ op_prev = "forward"
       /\ op_dense_grad = r.denseGrad
       /\ op_emb_grad = r.embeddingGrad

\* C14 witness: a backward has succeeded after a forward that replaced the
\* matrix of an earlier forward by a different one, with a non-zero gradient.
C14_Witness ==
  /\ op_call.kind = "backward"
  /\ op_err = {}
  /\ op_replaced
  /\ \E i \in DOMAIN op_emb_grad : op_emb_grad[i] # 0

\* C15: the output of a successful forward call is the output a fresh
\* instance gives on the same dense and embedding arrays, whatever calls
\* came before; so equal inputs give equal outputs.
C15_ForwardPure ==
  (op_call.kind = "forward" /\ op_err = {}) =>
    op_output = ForwardResult(<< >>, << >>, << >>, op_in.dense, op_in.emb, op_shape).output

\* C15 witness: a forward has succeeded after a backward and an earlier
\* forward with a different matrix, its output holding a non-zero
\* interaction term.
C15_Witness ==
  /\ op_call.kind = "forward"
  /\ op_err = {}
  /\ op_prev = "backward"
  /\ op_replaced
  /\ \E b \in 0..(op_shape.height - 1) :
       op_output[b * OutLen(op_shape) + op_shape.in_width] # 0

\* C16: after backward, denseGrad[b,i] = outputGrad[b,i] + matrixGrad[b,0,i];
\* the value the dense buffer held before backward does not appear.
C16_DenseGrad ==
  pc = "done" =>
    \A b \in Samples : \A i \in Cols :
      DenseBuf(b, i) = Output(b, i) + Matrix(b, 0, i)

\* C16 witness: backward has completed on a dense buffer that held a
\* non-zero forward input different from the output gradient's dense column,
\* with a non-zero recombined row 0.
C16_Witness ==
  /\ pc = "done"
  /\ \E b \in Samples : \E i \in Cols :
       Dense0(b, i) # 0 /\ Output(b, i) # Dense0(b, i) /\ Matrix(b, 0, i) # 0

\* C17: with GramGrad produced by disassemble, matrixGrad[b,m,:] =
\* sum over k > m of g(m,k) * matrix[b,k,:] + sum over k < m of
\* g(k,m) * matrix[b,k,:], g(i,j) the output gradient of the term Gram[i,j];
\* row m of the matrix does not contribute to row m of the gradient.
C17_AnalyticGradient ==
  pc \in {"scatter", "done"} =>
    \A b \in Samples : \A m \in Rows : \A n \in Cols :
      Matrix(b, m, n) =
        SumFn([k \in Rows |->
                 IF k > m THEN Output(b, TriPos(m, k)) * FwdMatrix(b, k, n)
                 ELSE IF k < m THEN Output(b, TriPos(k, m)) * FwdMatrix(b, k, n)
                 ELSE 0], NI)

\* C17 witness: a middle row m = 1 of four that receives gradient both from a
\* pair (0,1) below it and a pair (1,3) above it, and whose own values are
\* not zero.
C17_Witness ==
  /\ pc = "scatter" /\ n_emb = 3
  /\ \E b \in Samples : \E n \in Cols :
       /\ Output(b, TriPos(0, 1)) # 0 /\ Output(b, TriPos(1, 3)) # 0
       /\ FwdMatrix(b, 1, n) # 0 /\ Matrix(b, 1, n) # 0

\* C18: a call to Barrier::wait has returned normally only if thread_count
\* calls of its generation have decremented count_ and generation_ differs
\* from the value the call read on entry; the caller that brings count_ to 0
\* holds mu_ and goes on to release without blocking.
C18_ReturnAfterRelease ==
  \A t \in DOMAIN b_pc :
    /\ b_pc[t] = "returned" =>
         /\ generation_ # local_gen[t]
         /\ arrivals >= (local_gen[t] + 1) * thread_count_
    /\ b_pc[t] = "release" =>
         /\ mu_ = t /\ count_ = 0
         /\ arrivals = (local_gen[t] + 1) * thread_count_
         /\ ENABLED Release(t)

\* C18 witness: with thread_count >= 2, a waiter and the last arriver of one
\* generation have both returned normally.
C18_Witness ==
  /\ thread_count_ >= 2
  /\ \E t \in DOMAIN b_pc : \E u \in DOMAIN b_pc :
       /\ t # u /\ b_pc[t] = "returned" /\ b_pc[u] = "returned"
       /\ local_gen[t] = local_gen[u]

\* C19: whenever no thread holds mu_, 1 <= count_ <= thread_count_ and
\* generation_ is the number of completed groups of thread_count calls; each
\* release increases generation_ by exactly 1 and resets count_ to thread_count_.
C19_CountAndGeneration ==
  /\ [](mu_ = 0 /\ thread_count_ >= 1 =>
          /\ 1 <= count_ /\ count_ <= thread_count_
          /\ generation_ = arrivals \div thread_count_
          /\ count_ = thread_count_ - (arrivals % thread_count_))
  /\ [][generation_' # generation_ =>
          generation_' = generation_ + 1 /\ count_' = thread_count_]_vars

\* C19 witness: the barrier has been released twice and is in use a third
\* time, with thread_count >= 2.
C19_Witness ==
  /\ thread_count_ >= 2 /\ mu_ = 0
  /\ generation_ = 2 /\ count_ < thread_count_

\* C20: a call throws only while generation_ equals the value it read on
\* entry, and throwing changes neither count_ nor generation_; the generation
\* of a caller that has thrown is released exactly when thread_count calls
\* of that generation have arrived.
C20_Timeout ==
  /\ [][\A t \in DOMAIN b_pc :
          (b_pc[t] # "thrown" /\ b_pc'[t] = "thrown") =>
            /\ generation_ = local_gen[t]
            /\ count_' = count_ /\ generation_' = generation_
            /\ arrivals' = arrivals]_vars
  /\ [](\A t \in DOMAIN b_pc :
          (b_pc[t] = "thrown" /\ mu_ = 0) =>
            (generation_ > local_gen[t] <=>
               arrivals >= (local_gen[t] + 1) * thread_count_))

\* C20 witness: a caller has thrown and left, and its generation was released
\* afterwards by the call that completed the group.
C20_Witness ==
  /\ thread_count_ >= 2
  /\ \E t \in DOMAIN b_pc :
       b_pc[t] = "thrown" /\ generation_ > local_gen[t]

\* C21: with thread_count threads calling wait and no timeout, no call
\* throws, every call that has begun returns normally, and a blocked waiter
\* whose generation has been released returns normally even while calls of
\* the next generation arrive.
C21_EveryCallReturns ==
  /\ [](\A t \in Threads : b_pc[t] # "thrown")
  /\ \A t \in Threads :
       (b_pc[t] \in {"locked", "waiting", "woken", "release"}) ~> (b_pc[t] = "returned")
  /\ \A t \in Threads :
       (b_pc[t] \in {"waiting", "woken"} /\ generation_ > local_gen[t])
         ~> (b_pc[t] = "returned" /\ generation_ > local_gen[t])

\* C21 witness: with thread_count >= 3, a waiter of generation g is still
\* blocked, notified, while a call of generation g+1 has already decremented
\* count_ and blocks in its turn.
C21_Witness ==
  /\ thread_count_ >= 3
  /\ \E t \in Threads : \E u \in Threads :
       /\ b_pc[t] = "waiting" /\ t \in notified
       /\ generation_ = local_gen[t] + 1
       /\ b_pc[u] = "waiting" /\ local_gen[u] = generation_
       /\ count_ < thread_count_

====
